---- MODULE Spec2Model ----
(***************************************************************************)
(* Conversation state of the Amelie WhatsApp bot: the NeDB collections     *)
(* (messages, prompts, chat config), the history manager, the prompt       *)
(* registry, the config resolver, the media handlers and the reply         *)
(* sanitizer, as state machines over the stores.                           *)
(*                                                                         *)
(* A NeDB collection is kept as sequences of documents in the order the    *)
(* store enumerates them (the order of the random _id keys): a query       *)
(* without a sort returns documents in that order, a sort is stable over   *)
(* it, and an insert lands at an arbitrary position.  The message          *)
(* collection is kept per chatId, the field every query on it matches.     *)
(***************************************************************************)
EXTENDS Integers, Sequences, FiniteSets, Bags, TLC

VARIABLES
    messagesDb,   \* messagesDb: per chatId, its {chatId, sender, content, timestamp, type}
    promptsDb,    \* promptsDb: the bag of {chatId, name, text}
    configDb,     \* configDb: the bag of {chatId, ...fields set}
    now,          \* the value Date.now() returned last (milliseconds)
    appended,     \* per chat, the lines appended since the last reset, newest last
    defined,      \* per chat and name, the body of the last setSystemPrompt, or null
    last,         \* the last call: its name, arguments, result, replies and model calls
    usersDb,      \* usersDb: the bag of {id, name}
    handlers      \* the handler invocations in flight: where each stands, its locals

vars == <<messagesDb, promptsDb, configDb, now, appended, defined, last,
          usersDb, handlers>>

-----------------------------------------------------------------------------
(* Bounds *)

\* parseInt(process.env.MAX_HISTORY || '500'): the retained pair count
MAX_HISTORY == 1

\* the largest clock value
MaxClock == 1

\* the number of message rows the store may hold while an append runs
MaxRows == 2 * MAX_HISTORY + 1

\* the number of message rows the store may hold for a media reply to be stored
MaxMediaRows == 2

\* the number of document _id values told apart
MaxIds == 6

\* the handler invocations that can be in flight together
Handlers == {"h1", "h2"}

Chats == {"c1", "c2"}

-----------------------------------------------------------------------------
(* Sequence helpers *)

Min(a, b) == IF a <= b THEN a ELSE b

Range(s) == {s[i] : i \in 1..Len(s)}

InsertAt(s, p, e) == SubSeq(s, 1, p - 1) \o <<e>> \o SubSeq(s, p, Len(s))

RECURSIVE Reverse(_)
Reverse(s) == IF s = <<>> THEN <<>> ELSE Append(Reverse(Tail(s)), Head(s))

\* s without the positions in the set ps
RECURSIVE DropPos(_, _, _)
DropPos(s, i, ps) ==
    IF i > Len(s) THEN <<>>
    ELSE IF i \in ps THEN DropPos(s, i + 1, ps)
         ELSE <<s[i]>> \o DropPos(s, i + 1, ps)

LastN(s, n) == IF Len(s) <= n THEN s ELSE SubSeq(s, Len(s) - n + 1, Len(s))

-----------------------------------------------------------------------------
(* History manager *)

\* the rows of every chat together
TotalRows(db) ==
    LET RECURSIVE Sum(_)
        Sum(S) == IF S = {} THEN 0
                  ELSE LET c == CHOOSE x \in S : TRUE
                       IN  Len(db[c]) + Sum(S \ {c})
    IN  Sum(Chats)

\* find({chatId, type: {$in: ['user','bot']}}): the matching positions of the
\* chat's documents, in store order
RECURSIVE FindFrom(_, _)
FindFrom(docs, i) ==
    IF i > Len(docs) THEN <<>>
    ELSE IF docs[i].type \in {"user", "bot"}
         THEN <<i>> \o FindFrom(docs, i + 1)
         ELSE FindFrom(docs, i + 1)

\* the query of calculateAverageMessageLength, which matches user rows only
FindMessages_UserRows(db, chatId) ==
    SelectSeq([i \in 1..Len(db[chatId]) |-> i],
              LAMBDA i : db[chatId][i].type = "user")

FindMessages(db, chatId) == FindFrom(db[chatId], 1)

\* .sort({timestamp: -1}): positions by timestamp descending; equal timestamps
\* keep the store's order
RECURSIVE SortDescInto(_, _, _)
SortDescInto(docs, sorted, p) ==
    IF sorted = <<>> THEN <<p>>
    ELSE IF docs[Head(sorted)].timestamp >= docs[p].timestamp
         THEN <<Head(sorted)>> \o SortDescInto(docs, Tail(sorted), p)
         ELSE <<p>> \o sorted

RECURSIVE SortByTimestampDesc(_, _)
SortByTimestampDesc(docs, ps) ==
    IF ps = <<>> THEN <<>>
    ELSE SortDescInto(docs, SortByTimestampDesc(docs, SubSeq(ps, 1, Len(ps) - 1)),
                      ps[Len(ps)])

\* .limit(n) and .skip(n) of a cursor
Limit(ps, n) == SubSeq(ps, 1, Min(n, Len(ps)))
Skip(ps, n) == SubSeq(ps, Min(n, Len(ps)) + 1, Len(ps))

\* `${doc.sender}: ${doc.content}`
RenderLine(sender, content) == sender \o <<":", " ">> \o content

\* getMessageHistory(chatId, limit): the newest 2*limit rows, reversed, rendered
GetMessageHistoryOf(db, chatId, limit) ==
    LET docs == db[chatId]
        top  == Limit(SortByTimestampDesc(docs, FindMessages(db, chatId)), limit * 2)
        rev  == Reverse(top)
    IN  [i \in 1..Len(rev) |-> RenderLine(docs[rev[i]].sender, docs[rev[i]].content)]

\* a trim that skips MAX_HISTORY rows instead of MAX_HISTORY pairs
DocsToRemove_SkipRows(db, chatId) ==
    Skip(SortByTimestampDesc(db[chatId], FindMessages(db, chatId)), MAX_HISTORY)

\* the positions updateMessageHistory removes after its insert
DocsToRemove(db, chatId) ==
    Skip(SortByTimestampDesc(db[chatId], FindMessages(db, chatId)), MAX_HISTORY * 2)

\* the document updateMessageHistory inserts
NewMessage(chatId, sender, message, isBot, t) ==
    [chatId |-> chatId, sender |-> sender, content |-> message,
     timestamp |-> t, type |-> IF isBot THEN "bot" ELSE "user"]

\* the documents of the chat stamped t
RECURSIVE CountAt(_, _)
CountAt(docs, t) ==
    IF docs = <<>> THEN 0
    ELSE (IF Head(docs).timestamp = t THEN 1 ELSE 0) + CountAt(Tail(docs), t)

\* messagesDb.insert: the document lands where its random _id sorts. Every
\* query on the collection sorts by timestamp, so only its place among the
\* documents of the same timestamp shows; it is kept ahead of the older ones.
InsertMessage(db, doc, p) ==
    [db EXCEPT ![doc.chatId] = InsertAt(@, p, doc)]

\* messagesDb.remove({_id: {$in: ids}}, {multi: true})
RemoveMessages(db, chatId, ps) ==
    [db EXCEPT ![chatId] = DropPos(@, 1, Range(ps))]

\* the collection after updateMessageHistory inserted doc (landing at p) and
\* removed what its trim query found
AfterUpdate(db, doc, p) ==
    LET db1 == InsertMessage(db, doc, p)
    IN  RemoveMessages(db1, doc.chatId, DocsToRemove(db1, doc.chatId))

\* the places a document stamped t can land among the chat's documents
Landings(db, chatId, t) == 1..(CountAt(db[chatId], t) + 1)

\* the lines of the chat appended last, with one more
AppendedAfter(log, chatId, sender, message) ==
    [log EXCEPT ![chatId] =
        LastN(Append(@, RenderLine(sender, message)), 2 * MAX_HISTORY)]

\* the (sender, content, isBot) triples appended
Appends ==
    { << <<"a", "l", "i", "c", "e">>, <<"h", "i">>, FALSE >>,
      << <<"A", "m", "e", "l", "i", "e">>, <<"h", "e", "l", "l", "o">>, TRUE >> }

UpdateMessageHistory(chatId, sender, message, isBot) ==
    /\ TotalRows(messagesDb) < MaxRows
    /\ \E t \in now..MaxClock : \E p \in Landings(messagesDb, chatId, t) :
         LET doc == NewMessage(chatId, sender, message, isBot, t)
             db1 == InsertMessage(messagesDb, doc, p)
             rm  == DocsToRemove(db1, chatId)
         IN  /\ now' = t
             /\ messagesDb' = AfterUpdate(messagesDb, doc, p)
             /\ appended' = AppendedAfter(appended, chatId, sender, message)
             /\ last' = [op |-> "updateMessageHistory", chatId |-> chatId,
                         removed |-> [i \in 1..Len(rm) |-> db1[chatId][rm[i]]]]
    /\ UNCHANGED <<promptsDb, configDb, defined, usersDb, handlers>>

GetMessageHistory(chatId) ==
    /\ last' = [op |-> "getMessageHistory", chatId |-> chatId,
                ret |-> GetMessageHistoryOf(messagesDb, chatId, MAX_HISTORY)]
    /\ UNCHANGED <<messagesDb, promptsDb, configDb, now, appended, defined, usersDb, handlers>>

\* remove({chatId, type: {$in: ['user','bot']}}, {multi: true})
ResetHistory(chatId) ==
    /\ messagesDb' = RemoveMessages(messagesDb, chatId, FindMessages(messagesDb, chatId))
    /\ appended' = [appended EXCEPT ![chatId] = <<>>]
    /\ last' = [op |-> "resetHistory", chatId |-> chatId,
                removed |-> Len(FindMessages(messagesDb, chatId))]
    /\ UNCHANGED <<promptsDb, configDb, now, defined, usersDb, handlers>>

-----------------------------------------------------------------------------
(* Strings: a string is the sequence of its characters *)

UpperChars ==
    {"A", "B", "C", "D", "E", "F", "G", "H", "I", "J", "K", "L", "M",
     "N", "O", "P", "Q", "R", "S", "T", "U", "V", "W", "X", "Y", "Z"}

LowerChars ==
    {"a", "b", "c", "d", "e", "f", "g", "h", "i", "j", "k", "l", "m",
     "n", "o", "p", "q", "r", "s", "t", "u", "v", "w", "x", "y", "z"}

DigitChars == {"0", "1", "2", "3", "4", "5", "6", "7", "8", "9"}

\* \w of a regular expression without the unicode flag
WordChars == UpperChars \cup LowerChars \cup DigitChars \cup {"_"}

\* whether s starts with pre
StartsWith(s, pre) == Len(s) >= Len(pre) /\ SubSeq(s, 1, Len(pre)) = pre

\* the length of the longest prefix of s made of characters of the set cs
RECURSIVE RunLength(_, _)
RunLength(s, cs) ==
    IF s = <<>> \/ Head(s) \notin cs THEN 0 ELSE 1 + RunLength(Tail(s), cs)

\* \s of a regular expression, and what trim() and parseFloat skip
SpaceChars == {" ", "\n", "\t", "\r"}

DropFirst(s, n) == SubSeq(s, n + 1, Len(s))

\* s without its leading whitespace
StripLeft(s) == DropFirst(s, RunLength(s, SpaceChars))

\* s.trim()
Trim(s) == Reverse(StripLeft(Reverse(StripLeft(s))))

\* JavaScript's null and its truthiness for a string or null
Null == <<"null">>
Truthy(v) == v # Null /\ v # <<>>

-----------------------------------------------------------------------------
(* Prompt registry *)

\* "Seu nome é "
SeuNomeE == <<"S", "e", "u", " ", "n", "o", "m", "e", " ", "é", " ">>

\* `Seu nome é ${name}. ${text}`
FormatPrompt(name, text) == SeuNomeE \o name \o <<".", " ">> \o text

\* what findOne calls back with when no document matches
NoDoc == [null |-> TRUE]

\* the documents that match {chatId, name}
PromptsOf(db, chatId, name) ==
    {d \in BagToSet(db) : d.chatId = chatId /\ d.name = name}

\* promptsDb.findOne({chatId, name}): a matching document, or null
FindOnePrompt(db, chatId, name) ==
    IF PromptsOf(db, chatId, name) = {} THEN NoDoc
    ELSE CHOOSE d \in PromptsOf(db, chatId, name) : TRUE

\* update(query, doc, {upsert: true}) on the documents matched by the query: one
\* matching document is replaced, or the document is inserted when none matches
Upsert(db, matching, old, doc) ==
    IF matching = {} THEN db (+) SetToBag({doc})
    ELSE (db (-) SetToBag({old})) (+) SetToBag({doc})

\* a setSystemPrompt that inserts without looking for the (chatId, name) record
PromptsAfterSet_InsertOnly(db, chatId, name, text) ==
    db (+) SetToBag({[chatId |-> chatId, name |-> name, text |-> FormatPrompt(name, text)]})

\* setSystemPrompt's write to promptsDb
PromptsAfterSet(db, chatId, name, text) ==
    LET doc == [chatId |-> chatId, name |-> name, text |-> FormatPrompt(name, text)]
    IN  Upsert(db, PromptsOf(db, chatId, name), FindOnePrompt(db, chatId, name), doc)

SetSystemPrompt(chatId, name, text) ==
    /\ promptsDb' = PromptsAfterSet(promptsDb, chatId, name, text)
    /\ defined' = [defined EXCEPT ![chatId][name] = text]
    /\ last' = [op |-> "setSystemPrompt", chatId |-> chatId, name |-> name]
    /\ UNCHANGED <<messagesDb, configDb, now, appended, usersDb, handlers>>

GetSystemPrompt(chatId, name) ==
    /\ last' = [op |-> "getSystemPrompt", chatId |-> chatId, name |-> name,
                ret |-> FindOnePrompt(promptsDb, chatId, name)]
    /\ UNCHANGED <<messagesDb, promptsDb, configDb, now, appended, defined, usersDb, handlers>>

\* promptsDb.find({chatId}): the names, in the store's order
ListSystemPrompts(chatId) ==
    /\ last' = [op |-> "listSystemPrompts", chatId |-> chatId,
                ret |-> {d.name : d \in {e \in BagToSet(promptsDb) : e.chatId = chatId}}]
    /\ UNCHANGED <<messagesDb, promptsDb, configDb, now, appended, defined, usersDb, handlers>>

-----------------------------------------------------------------------------
(* Config resolver.  Numbers are kept in hundredths: 0.9 is 90, 93 is 9300. *)

Hundredths(units, cents) == units * 100 + cents

\* process.env.BOT_NAME || 'Amelie'
BOT_NAME == <<"A", "m", "e", "l", "i", "e">>

\* defaults with the model's own topK in place of 93
defaultConfig_ModelTopK ==
    [temperature |-> Hundredths(0, 90), topK |-> Hundredths(40, 0),
     topP |-> Hundredths(0, 95), maxOutputTokens |-> Hundredths(1024, 0),
     mediaImage |-> TRUE, mediaAudio |-> TRUE]

defaultConfig ==
    [temperature |-> Hundredths(0, 90), topK |-> Hundredths(93, 0),
     topP |-> Hundredths(0, 95), maxOutputTokens |-> Hundredths(1024, 0),
     mediaImage |-> TRUE, mediaAudio |-> TRUE]

ConfigsOf(db, chatId) == {d \in BagToSet(db) : d.chatId = chatId}

\* configDb.findOne({chatId}): a matching document, or {}
FindOneConfig(db, chatId) ==
    IF ConfigsOf(db, chatId) = {} THEN <<>>
    ELSE CHOOSE d \in ConfigsOf(db, chatId) : TRUE

\* {$set: {[param]: value}} on a document
SetField(doc, param, value) ==
    [f \in DOMAIN doc \cup {param} |-> IF f = param THEN value ELSE doc[f]]

\* setConfig: configDb.update({chatId}, {$set: {[param]: value}}, {upsert: true})
ConfigAfterSet(db, chatId, param, value) ==
    LET old == FindOneConfig(db, chatId)
        doc == IF ConfigsOf(db, chatId) = {}
               THEN SetField([chatId |-> chatId], param, value)
               ELSE SetField(old, param, value)
    IN  Upsert(db, ConfigsOf(db, chatId), old, doc)

\* systemInstructions.match(/^Seu nome é (\w+)\./): the captured name, or null
MatchBotName(text) ==
    IF ~StartsWith(text, SeuNomeE) THEN Null
    ELSE LET rest == SubSeq(text, Len(SeuNomeE) + 1, Len(text))
             n    == RunLength(rest, WordChars)
         IN  IF n >= 1 /\ Len(rest) > n /\ rest[n + 1] = "."
             THEN SubSeq(rest, 1, n)
             ELSE Null

\* {...defaultConfig, ...userConfig}
MergeConfig(defaults, doc) ==
    [f \in DOMAIN defaults \cup DOMAIN doc |->
        IF f \in DOMAIN doc THEN doc[f] ELSE defaults[f]]

\* the object getConfig resolves to
GetConfigOf(cdb, pdb, chatId) ==
    LET config == MergeConfig(defaultConfig, FindOneConfig(cdb, chatId))
        active == IF "activePrompt" \in DOMAIN config /\ Truthy(config.activePrompt)
                  THEN FindOnePrompt(pdb, chatId, config.activePrompt)
                  ELSE NoDoc
    IN  IF "activePrompt" \in DOMAIN config /\ Truthy(config.activePrompt)
        THEN IF active # NoDoc
             THEN LET match == MatchBotName(active.text)
                  IN  SetField(SetField(config, "systemInstructions", active.text),
                               "botName", IF match # Null THEN match ELSE BOT_NAME)
             ELSE config
        ELSE SetField(config, "botName", BOT_NAME)

GetConfig(chatId) ==
    /\ last' = [op |-> "getConfig", chatId |-> chatId,
                ret |-> GetConfigOf(configDb, promptsDb, chatId)]
    /\ UNCHANGED <<messagesDb, promptsDb, configDb, now, appended, defined, usersDb, handlers>>

SetConfig(chatId, param, value) ==
    /\ configDb' = ConfigAfterSet(configDb, chatId, param, value)
    /\ last' = [op |-> "setConfig", chatId |-> chatId, param |-> param]
    /\ UNCHANGED <<messagesDb, promptsDb, now, appended, defined, usersDb, handlers>>

\* a setActiveSystemPrompt that does not look the prompt up
ActivateResult_NoLookup(pdb, chatId, promptName) == TRUE

\* what setActiveSystemPrompt returns
ActivateResult(pdb, chatId, promptName) ==
    FindOnePrompt(pdb, chatId, promptName) # NoDoc

SetActiveSystemPrompt(chatId, promptName) ==
    /\ configDb' = IF ActivateResult(promptsDb, chatId, promptName)
                   THEN ConfigAfterSet(configDb, chatId, "activePrompt", promptName)
                   ELSE configDb
    /\ last' = [op |-> "setActiveSystemPrompt", chatId |-> chatId,
                name |-> promptName,
                ret |-> ActivateResult(promptsDb, chatId, promptName)]
    /\ UNCHANGED <<messagesDb, promptsDb, now, appended, defined, usersDb, handlers>>

\* a clear that deletes the chat's config record
ConfigAfterClear_RemoveRecord(cdb, chatId) ==
    cdb (-) [d \in ConfigsOf(cdb, chatId) |-> cdb[d]]

\* setConfig(chatId, 'activePrompt', null)
ConfigAfterClear(cdb, chatId) == ConfigAfterSet(cdb, chatId, "activePrompt", Null)

ClearActiveSystemPrompt(chatId) ==
    /\ configDb' = ConfigAfterClear(configDb, chatId)
    /\ last' = [op |-> "clearActiveSystemPrompt", chatId |-> chatId, ret |-> TRUE]
    /\ UNCHANGED <<messagesDb, promptsDb, now, appended, defined, usersDb, handlers>>

\* the prompt names and bodies defined
NameBob == <<"B", "o", "b">>
NameZe == <<"Z", "é">>
NameDrX == <<"D", "r", ".", "X">>
NameAudiomar == <<"A", "u", "d", "i", "o", "m", "a", "r">>
Names == {NameBob, NameZe}
AllNames == Names \cup {NameAudiomar}
Bodies == { <<"h", "i">>, <<"O", "K", ".", " ", "h", "i">> }

\* rest.join(' ') of the words after the name
RECURSIVE JoinWords(_)
JoinWords(words) ==
    IF words = <<>> THEN <<>>
    ELSE IF Len(words) = 1 THEN Head(words)
         ELSE Head(words) \o <<" ">> \o JoinWords(Tail(words))

\* what handlePromptCommand writes to promptsDb
PromptCommandPrompts(pdb, chatId, sub, name, rest) ==
    IF sub = "set" /\ Truthy(name) /\ Len(rest) > 0
    THEN PromptsAfterSet(pdb, chatId, name, JoinWords(rest))
    ELSE pdb

\* a `use` that activates the name without looking the prompt up
PromptCommandConfig_UseUnchecked(cdb, pdb, chatId, sub, name) ==
    IF sub = "use" /\ Truthy(name)
    THEN ConfigAfterSet(cdb, chatId, "activePrompt", name)
    ELSE IF sub = "clear" THEN ConfigAfterClear(cdb, chatId)
    ELSE cdb

\* what handlePromptCommand writes to configDb
PromptCommandConfig(cdb, pdb, chatId, sub, name) ==
    IF sub = "use" /\ Truthy(name) /\ FindOnePrompt(pdb, chatId, name) # NoDoc
    THEN IF ActivateResult(pdb, chatId, name)
         THEN ConfigAfterSet(cdb, chatId, "activePrompt", name)
         ELSE cdb
    ELSE IF sub = "clear" THEN ConfigAfterClear(cdb, chatId)
    ELSE cdb

\* the reply of the `list` case
ListReply(pdb, chatId) ==
    LET names == {d.name : d \in {e \in BagToSet(pdb) : e.chatId = chatId}}
    IN  IF names # {}
        THEN <<"System Instructions disponíveis: ", names>>
        ELSE <<"Nenhuma System Instruction definida.">>

\* the replies handlePromptCommand sends, in order; `get` has no break and runs
\* into `list`
PromptCommandReplies(pdb, chatId, sub, name, rest) ==
    CASE sub = "set" ->
           IF Truthy(name) /\ Len(rest) > 0
           THEN << <<"System Instruction \"", name,
                     "\" definida com sucesso. O histórico do chat foi limpo.">> >>
           ELSE << <<"Uso correto: !prompt set <nome> <texto>">> >>
      [] sub = "get" ->
           << IF Truthy(name)
              THEN IF FindOnePrompt(pdb, chatId, name) # NoDoc
                   THEN <<"System Instruction \"", name, "\":\n",
                          FindOnePrompt(pdb, chatId, name).text>>
                   ELSE <<"System Instruction \"", name, "\" não encontrada.">>
              ELSE <<"Uso correto: !prompt get <nome>">>,
              ListReply(pdb, chatId) >>
      [] sub = "list" -> << ListReply(pdb, chatId) >>
      [] sub = "use" ->
           IF Truthy(name)
           THEN IF FindOnePrompt(pdb, chatId, name) # NoDoc
                THEN << <<"System Instruction \"", name, "\" ativada para este chat.">> >>
                ELSE << <<"System Instruction \"", name, "\" não encontrada.">> >>
           ELSE << <<"Uso correto: !prompt use <nome>">> >>
      [] sub = "clear" ->
           << <<"System Instruction removida. Usando o modelo padrão.">> >>
      [] OTHER ->
           << <<"Subcomando de prompt desconhecido. Use !help para ver os comandos disponíveis.">> >>

\* a `set` that runs the call left commented out: clearChatOnInstructionChange
\* with its body restored
PromptCommandMessages_ClearOnSet(db, chatId, sub, name, rest) ==
    IF sub = "set" /\ Truthy(name) /\ Len(rest) > 0
    THEN [db EXCEPT ![chatId] = <<>>]
    ELSE db

\* what handlePromptCommand writes to messagesDb: nothing, in every case
PromptCommandMessages(db, chatId, sub, name, rest) == db

HandlePromptCommand(chatId, sub, name, rest) ==
    /\ messagesDb' = PromptCommandMessages(messagesDb, chatId, sub, name, rest)
    /\ promptsDb' = PromptCommandPrompts(promptsDb, chatId, sub, name, rest)
    /\ configDb' = PromptCommandConfig(configDb, promptsDb, chatId, sub, name)
    /\ defined' = IF sub = "set" /\ Truthy(name) /\ Len(rest) > 0
                  THEN [defined EXCEPT ![chatId][name] = JoinWords(rest)]
                  ELSE defined
    /\ last' = [op |-> "handlePromptCommand", chatId |-> chatId, sub |-> sub,
                name |-> name,
                replies |-> PromptCommandReplies(promptsDb, chatId, sub, name, rest)]
    /\ UNCHANGED <<now, appended, usersDb, handlers>>

\* the arguments of a `!prompt` command: the subcommand, the name (empty when
\* missing) and the words after it
PromptSubcommands == {"set", "get", "list", "use", "clear", "bogus"}
PromptNames == Names \cup {<<>>}
PromptRests == { <<>>, << <<"h", "i">> >>, << <<"O", "K", ".">>, <<"h", "i">> >> }

-----------------------------------------------------------------------------
(* Config command.  A parameter name is a TLA+ string ("" when missing); a     *)
(* value is a string of characters (empty when missing).                      *)

\* the value of a run of decimal digits
DigitValue(c) ==
    CASE c = "0" -> 0 [] c = "1" -> 1 [] c = "2" -> 2 [] c = "3" -> 3
      [] c = "4" -> 4 [] c = "5" -> 5 [] c = "6" -> 6 [] c = "7" -> 7
      [] c = "8" -> 8 [] c = "9" -> 9

RECURSIVE DigitsValue(_)
DigitsValue(s) ==
    IF s = <<>> THEN 0
    ELSE DigitsValue(SubSeq(s, 1, Len(s) - 1)) * 10 + DigitValue(s[Len(s)])

\* the first two fraction digits, as hundredths
FractionHundredths(s) ==
    DigitsValue(SubSeq(s \o <<"0", "0">>, 1, 2))

\* parseFloat(value): the number its longest decimal prefix denotes (leading
\* whitespace and a sign allowed), or NaN. Values here carry at most two
\* fraction digits and no exponent.
ParseFloat(value) ==
    LET a    == StripLeft(value)
        neg  == a # <<>> /\ Head(a) = "-"
        b    == IF a # <<>> /\ Head(a) \in {"-", "+"} THEN Tail(a) ELSE a
        n1   == RunLength(b, DigitChars)
        c    == SubSeq(b, n1 + 1, Len(b))
        dot  == c # <<>> /\ Head(c) = "."
        n2   == IF dot THEN RunLength(Tail(c), DigitChars) ELSE 0
        mag  == DigitsValue(SubSeq(b, 1, n1)) * 100
                + (IF n2 > 0 THEN FractionHundredths(SubSeq(c, 2, n2 + 1)) ELSE 0)
    IN  IF n1 = 0 /\ n2 = 0 THEN [nan |-> TRUE]
        ELSE [nan |-> FALSE, v |-> IF neg THEN 0 - mag ELSE mag]

NumericParams == {"temperature", "topK", "topP", "maxOutputTokens"}

\* whether `config set` reaches setConfig
ConfigSetAccepted_NoNaNCheck(param, value) ==
    /\ param # "" /\ Truthy(value)
    /\ param \in NumericParams

ConfigSetAccepted(param, value) ==
    /\ param # "" /\ Truthy(value)
    /\ param \in NumericParams
    /\ ~ParseFloat(value).nan

\* what handleConfigCommand writes to configDb
ConfigCommandConfig(cdb, chatId, sub, param, value) ==
    IF sub = "set" /\ ConfigSetAccepted(param, value)
    THEN ConfigAfterSet(cdb, chatId, param,
                        IF ParseFloat(value).nan THEN 0 ELSE ParseFloat(value).v)
    ELSE cdb

\* the replies handleConfigCommand sends
ConfigCommandReplies(cdb, pdb, chatId, sub, param, value) ==
    CASE sub = "set" ->
           IF param # "" /\ Truthy(value)
           THEN IF param \in NumericParams
                THEN IF ~ParseFloat(value).nan
                     THEN << <<"Parâmetro ", param, " definido como ",
                               ParseFloat(value).v>> >>
                     ELSE << <<"Valor inválido para ", param, ". Use um número.">> >>
                ELSE << <<"Parâmetro desconhecido: ", param>> >>
           ELSE << <<"Uso correto: !config set <param> <valor>">> >>
      [] sub = "get" ->
           LET config == GetConfigOf(cdb, pdb, chatId)
           IN  IF param # ""
               THEN IF param \in DOMAIN config
                    THEN << <<param, ": ", config[param]>> >>
                    ELSE << <<"Parâmetro desconhecido: ", param>> >>
               ELSE << <<"Configuração atual:\n", config>> >>
      [] OTHER ->
           << <<"Subcomando de config desconhecido. Use !help para ver os comandos disponíveis.">> >>

HandleConfigCommand(chatId, sub, param, value) ==
    /\ configDb' = ConfigCommandConfig(configDb, chatId, sub, param, value)
    /\ last' = [op |-> "handleConfigCommand", chatId |-> chatId, sub |-> sub,
                param |-> param, value |-> value,
                replies |-> ConfigCommandReplies(configDb, promptsDb, chatId,
                                                 sub, param, value)]
    /\ UNCHANGED <<messagesDb, promptsDb, now, appended, defined, usersDb, handlers>>

\* the arguments of a `!config` command
ConfigSubcommands == {"set", "get", "bogus"}
ConfigParams == {"temperature", "maxOutputTokens", "mediaAudio", "bogus", ""}
ConfigValues == { <<>>, <<"0", ".", "5">>, <<"5", "x">>, <<"x">> }

-----------------------------------------------------------------------------
(* Media handlers *)

MB == 1024 * 1024

\* the audio size limit, in MB
AudioLimitMB == 20

\* the length of the base64 text of a payload
Base64Length(bytes) == 4 * ((bytes + 2) \div 3)

\* audioData.data.length: the media arrives as a buffer of the payload or as
\* its base64 text
DataLength(payloadBytes, encoding) ==
    IF encoding = "base64" THEN Base64Length(payloadBytes) ELSE payloadBytes

\* a size check that divides the length by 1024 once only
AudioTooLarge_KB(dataLength) == dataLength \div 1024 > AudioLimitMB * 1024

\* audioData.data.length / (1024 * 1024) > 20
AudioTooLarge(dataLength) == dataLength > AudioLimitMB * MB

\* a check of the other medium's toggle
AudioEnabled_ImageToggle(config) == config.mediaImage

\* config.mediaAudio, config.mediaImage
AudioEnabled(config) == config.mediaAudio
ImageEnabled(config) == config.mediaImage

\* text.replace(/\r\n/g, '\n').replace(/\r/g, '\n')
RECURSIVE UnixNewlines(_)
UnixNewlines(s) ==
    IF s = <<>> THEN <<>>
    ELSE IF Head(s) = "\r"
         THEN <<"\n">> \o UnixNewlines(IF StartsWith(Tail(s), <<"\n">>)
                                           THEN Tail(Tail(s)) ELSE Tail(s))
         ELSE <<Head(s)>> \o UnixNewlines(Tail(s))

\* text.replace(/\n{3,}/g, '\n\n')
RECURSIVE CollapseNewlines(_)
CollapseNewlines(s) ==
    IF s = <<>> THEN <<>>
    ELSE LET n == RunLength(s, {"\n"})
         IN  IF n >= 3 THEN <<"\n", "\n">> \o CollapseNewlines(DropFirst(s, n))
             ELSE IF n >= 1 THEN SubSeq(s, 1, n) \o CollapseNewlines(DropFirst(s, n))
             ELSE <<Head(s)>> \o CollapseNewlines(Tail(s))

\* the text sendMessage hands to msg.reply
SendMessageText(text) ==
    IF Trim(text) = <<>>
    THEN <<"Desculpe, ocorreu um erro ao gerar a resposta. Por favor, tente novamente.">>
    ELSE CollapseNewlines(UnixNewlines(Trim(text)))

\* config.botName, which getConfig leaves unset when the active prompt has no record
BotNameOf(config) ==
    IF "botName" \in DOMAIN config THEN config.botName ELSE <<"undefined">>

\* '[Áudio]'
AudioContent == <<"[", "Á", "u", "d", "i", "o", "]">>

\* the prompt of an image without a caption
DefaultImagePrompt ==
    <<"Descreva esta imagem em detalhes, focando apenas no que você vê com certeza. Se não tiver certeza sobre algo, não mencione.">>

\* msg.body.trim(), or the default prompt when the caption is blank
ImagePrompt(body) == IF Trim(body) # <<>> THEN Trim(body) ELSE DefaultImagePrompt

\* `[Imagem] ${userPrompt}`
ImageContent(body) ==
    <<"[", "I", "m", "a", "g", "e", "m", "]", " ">> \o ImagePrompt(body)

\* the history rows a handled media message leaves: the user's, then the bot's
MediaHistory(chatId, from, content, botName, response) ==
    /\ TotalRows(messagesDb) + 2 <= MaxMediaRows
    /\ \E t1 \in now..MaxClock : \E p1 \in Landings(messagesDb, chatId, t1) :
         LET db1 == AfterUpdate(messagesDb,
                                NewMessage(chatId, from, content, FALSE, t1), p1)
         IN  \E t2 \in t1..MaxClock : \E p2 \in Landings(db1, chatId, t2) :
                /\ messagesDb' =
                      AfterUpdate(db1, NewMessage(chatId, botName, response, TRUE, t2), p2)
                /\ now' = t2
    /\ appended' = AppendedAfter(AppendedAfter(appended, chatId, from, content),
                                 chatId, botName, response)

\* what the model call of a text message comes to: a text, an empty text, or an
\* exception
TextOutcomes ==
    { [ok |-> TRUE, text |-> <<"o", "i", "U+2600">>],
      [ok |-> TRUE, text |-> <<>>],
      [ok |-> FALSE] }

\* what the model call comes to: a reply text, or an exception
ModelOutcomes ==
    { [ok |-> TRUE, text |-> <<"o", "i", "\r", "\n">>],
      [ok |-> FALSE] }

HandleAudioMessage(chatId, from, payloadBytes, encoding, outcome) ==
    LET config == GetConfigOf(configDb, promptsDb, chatId)
        call   == [op |-> "handleAudioMessage", chatId |-> chatId,
                   payloadBytes |-> payloadBytes]
    IN  /\ UNCHANGED <<promptsDb, configDb, defined, usersDb, handlers>>
        /\ IF ~AudioEnabled(config)
           THEN /\ last' = call @@ [replies |-> <<>>, modelCalls |-> 0]
                /\ UNCHANGED <<messagesDb, now, appended>>
           ELSE IF AudioTooLarge(DataLength(payloadBytes, encoding))
           THEN /\ last' = call @@
                      [replies |-> << <<"Desculpe, só posso processar áudios de até 20MB.">> >>,
                       modelCalls |-> 0]
                /\ UNCHANGED <<messagesDb, now, appended>>
           ELSE IF ~outcome.ok
           THEN /\ last' = call @@
                      [replies |-> << <<"Desculpe, ocorreu um erro ao processar o áudio. Por favor, tente novamente.">> >>,
                       modelCalls |-> 1]
                /\ UNCHANGED <<messagesDb, now, appended>>
           ELSE /\ last' = call @@
                      [replies |-> << SendMessageText(outcome.text) >>, modelCalls |-> 1]
                /\ MediaHistory(chatId, from, AudioContent, BotNameOf(config),
                                outcome.text)

HandleImageMessage(chatId, from, body, outcome) ==
    LET config == GetConfigOf(configDb, promptsDb, chatId)
        call   == [op |-> "handleImageMessage", chatId |-> chatId]
    IN  /\ UNCHANGED <<promptsDb, configDb, defined, usersDb, handlers>>
        /\ IF ~ImageEnabled(config)
           THEN /\ last' = call @@ [replies |-> <<>>, modelCalls |-> 0]
                /\ UNCHANGED <<messagesDb, now, appended>>
           ELSE IF ~outcome.ok
           THEN /\ last' = call @@
                      [replies |-> << <<"Desculpe, ocorreu um erro ao processar a imagem. Por favor, tente novamente.">> >>,
                       modelCalls |-> 1]
                /\ UNCHANGED <<messagesDb, now, appended>>
           ELSE /\ last' = call @@
                      [replies |-> << SendMessageText(outcome.text) >>, modelCalls |-> 1]
                /\ MediaHistory(chatId, from, ImageContent(body), BotNameOf(config),
                                outcome.text)

\* the prompt text of the `!cego` command: its opening and closing sentences
\* (the guidelines between them are elided as [...]); no code reads inside it
audiomarPrompt ==
    <<"Você é um chatbot especializado em audiodescrição, [...] Para obras de arte, inclua informações sobre o estilo artístico e técnicas utilizadas.">>

HandleCegoCommand(chatId) ==
    LET c1  == ConfigAfterSet(configDb, chatId, "mediaImage", TRUE)
        c2  == ConfigAfterSet(c1, chatId, "mediaAudio", FALSE)
        pdb == PromptsAfterSet(promptsDb, chatId, NameAudiomar, audiomarPrompt)
    IN  /\ promptsDb' = pdb
        /\ configDb' = IF ActivateResult(pdb, chatId, NameAudiomar)
                       THEN ConfigAfterSet(c2, chatId, "activePrompt", NameAudiomar)
                       ELSE c2
        /\ defined' = [defined EXCEPT ![chatId][NameAudiomar] = audiomarPrompt]
        /\ last' = [op |-> "handleCegoCommand", chatId |-> chatId,
                    replies |-> << <<"Configurações para usuários com deficiência visual aplicadas com sucesso:\n- Descrição de imagens habilitada\n- Transcrição de áudio desabilitada\n- Prompt de audiodescrição \"Audiomar\" ativado">> >>]
        /\ UNCHANGED <<messagesDb, now, appended, usersDb, handlers>>

\* the media messages received: who sent them, the audio payload sizes, how the
\* media is encoded, the image captions
MediaSenders == { <<"5", "5", "1", "@", "c", ".", "u", "s">> }
AudioSizes == { 16 * MB, 20 * MB, 20 * MB + 1 }
MediaEncodings == {"buffer", "base64"}
ImageCaptions == { <<>>, <<" ", "q", "u", "e", "m", "?">> }

-----------------------------------------------------------------------------
(* Message handlers, await by await.  A handler invocation runs from one await *)
(* to the next without interruption; other invocations run in between.  An    *)
(* updateMessageHistory call is taken as one step here.                       *)

\* usersDb.findOne({id: sender}): a matching document, or null
UsersOf(db, id) == {d \in BagToSet(db) : d.id = id}
FindOneUser(db, id) ==
    IF UsersOf(db, id) = {} THEN NoDoc ELSE CHOOSE d \in UsersOf(db, id) : TRUE

\* contact.pushname || contact.name || `User${sender.substring(0, 12)}`
NewUserName(sender, pushname) ==
    IF Truthy(pushname) THEN pushname
    ELSE <<"U", "s", "e", "r">> \o SubSeq(sender, 1, Min(12, Len(sender)))

\* the characters the regex of removeEmojis matches, among those used here,
\* each written as its code point
EmojiChars == {"U+2600", "U+1F600"}

\* text.replace(/[emoji ranges]/gu, '')
RemoveEmojis(text) == SelectSeq(text, LAMBDA c : c \notin EmojiChars)

\* the catch of generateResponseWithText
GenerateFallback ==
    <<"Desculpe, ocorreu um erro ao gerar a resposta. Por favor, tente novamente ou reformule sua pergunta.">>

\* a generateResponseWithText without its try/catch: the failure reaches the caller
GenerateResponseWithText_NoCatch(outcome) ==
    IF outcome.ok /\ outcome.text # <<>>
    THEN [threw |-> FALSE, text |-> RemoveEmojis(outcome.text)]
    ELSE [threw |-> TRUE]

\* generateResponseWithText: the model's text without emojis, or the fallback
\* when the call throws or the text is empty; it never throws
GenerateResponseWithText(outcome) ==
    IF outcome.ok /\ outcome.text # <<>>
    THEN [threw |-> FALSE, text |-> RemoveEmojis(outcome.text)]
    ELSE [threw |-> FALSE, text |-> GenerateFallback]

\* an invocation's record moves on: fields set, step names logged
Advance(h, fields, stepNames) ==
    handlers' = [handlers EXCEPT ![h] =
        [f \in DOMAIN handlers[h] \cup DOMAIN fields |->
            IF f = "steps" THEN handlers[h].steps \o stepNames
            ELSE IF f \in DOMAIN fields THEN fields[f] ELSE handlers[h][f]]]

\* one updateMessageHistory call made by an invocation
HandlerAppend(chatId, sender, message, isBot) ==
    /\ \E t \in now..MaxClock : \E p \in Landings(messagesDb, chatId, t) :
          /\ now' = t
          /\ messagesDb' = AfterUpdate(messagesDb,
                                       NewMessage(chatId, sender, message, isBot, t), p)
    /\ appended' = AppendedAfter(appended, chatId, sender, message)

\* message_create hands a text message to handleTextMessage
ReceiveText(h, chatId, sender, pushname, body) ==
    /\ handlers[h].pc \in {"idle", "done"}
    /\ handlers' = [handlers EXCEPT ![h] =
          [pc |-> "findUser", kind |-> "text", chatId |-> chatId,
           sender |-> sender, pushname |-> pushname, body |-> body,
           steps |-> <<>>, replies |-> <<>>, modelCalls |-> 0]]
    /\ UNCHANGED <<messagesDb, promptsDb, configDb, now, appended, defined, last,
                   usersDb>>

\* getOrCreateUser: usersDb.findOne and its callback
FindUser(h) ==
    LET user == FindOneUser(usersDb, handlers[h].sender)
    IN  /\ handlers[h].pc = "findUser"
        /\ IF user # NoDoc
           THEN Advance(h, [pc |-> "getConfig", userName |-> user.name], <<>>)
           ELSE Advance(h, [pc |-> "insertUser"], <<>>)
        /\ UNCHANGED <<messagesDb, promptsDb, configDb, now, appended, defined,
                       last, usersDb>>

\* getOrCreateUser: after the contact lookup, usersDb.insert(newUser)
InsertUser(h) ==
    LET name == NewUserName(handlers[h].sender, handlers[h].pushname)
    IN  /\ handlers[h].pc = "insertUser"
        /\ usersDb' = usersDb (+) SetToBag({[id |-> handlers[h].sender, name |-> name]})
        /\ Advance(h, [pc |-> "getConfig", userName |-> name], <<>>)
        /\ UNCHANGED <<messagesDb, promptsDb, configDb, now, appended, defined, last>>

\* const chatConfig = await getConfig(chatId)
TextGetConfig(h) ==
    /\ handlers[h].pc = "getConfig"
    /\ Advance(h, [pc |-> "appendInbound",
                   botName |-> BotNameOf(GetConfigOf(configDb, promptsDb,
                                                     handlers[h].chatId))], <<>>)
    /\ UNCHANGED <<messagesDb, promptsDb, configDb, now, appended, defined, last,
                   usersDb>>

\* await updateMessageHistory(chatId, user.name, msg.body)
TextAppendInbound(h) ==
    /\ handlers[h].pc = "appendInbound"
    /\ HandlerAppend(handlers[h].chatId, handlers[h].userName, handlers[h].body, FALSE)
    /\ Advance(h, [pc |-> "readHistory"], <<"appendInbound">>)
    /\ UNCHANGED <<promptsDb, configDb, defined, last, usersDb>>

\* const history = await getMessageHistory(chatId)
TextReadHistory(h) ==
    /\ handlers[h].pc = "readHistory"
    /\ Advance(h, [pc |-> "generate"], <<"readHistory">>)
    /\ UNCHANGED <<messagesDb, promptsDb, configDb, now, appended, defined, last,
                   usersDb>>

\* const response = await generateResponseWithText(userPromptText, chatId); a
\* failure that reached handleTextMessage would end in its catch
TextGenerate(h, outcome) ==
    LET gen == GenerateResponseWithText(outcome)
    IN  /\ handlers[h].pc = "generate"
        /\ IF gen.threw
           THEN Advance(h, [pc |-> "done", modelCalls |-> handlers[h].modelCalls + 1,
                            failed |-> TRUE,
                            replies |-> << <<"Desculpe, ocorreu um erro ao processar sua mensagem. Por favor, tente novamente.">> >>],
                        <<"invokeModel", "relay">>)
           ELSE Advance(h, [pc |-> "appendOutbound",
                            modelCalls |-> handlers[h].modelCalls + 1,
                            failed |-> ~(outcome.ok /\ outcome.text # <<>>),
                            response |-> gen.text],
                        IF outcome.ok /\ outcome.text # <<>>
                        THEN <<"invokeModel", "sanitize">> ELSE <<"invokeModel">>)
        /\ UNCHANGED <<messagesDb, promptsDb, configDb, now, appended, defined,
                       last, usersDb>>

\* await updateMessageHistory(chatId, chatConfig.botName, response, true)
TextAppendOutbound(h) ==
    /\ handlers[h].pc = "appendOutbound"
    /\ HandlerAppend(handlers[h].chatId, handlers[h].botName, handlers[h].response, TRUE)
    /\ Advance(h, [pc |-> "send"], <<"appendOutbound">>)
    /\ UNCHANGED <<promptsDb, configDb, defined, last, usersDb>>

\* await sendMessage(msg, response)
TextSend(h) ==
    /\ handlers[h].pc = "send"
    /\ Advance(h, [pc |-> "done",
                   replies |-> << SendMessageText(handlers[h].response) >>],
               <<"relay">>)
    /\ UNCHANGED <<messagesDb, promptsDb, configDb, now, appended, defined, last,
                   usersDb>>

\* the steps of handleTextMessage
TextStep(h) ==
    \/ FindUser(h)
    \/ InsertUser(h)
    \/ TextGetConfig(h)
    \/ TextAppendInbound(h)
    \/ TextReadHistory(h)
    \/ \E o \in TextOutcomes : TextGenerate(h, o)
    \/ TextAppendOutbound(h)
    \/ TextSend(h)

\* message_create hands an audio message to handleAudioMessage
ReceiveAudio(h, chatId, from, dataLength) ==
    /\ handlers[h].pc \in {"idle", "done"}
    /\ handlers' = [handlers EXCEPT ![h] =
          [pc |-> "mediaConfig", kind |-> "audio", chatId |-> chatId,
           sender |-> from, dataLength |-> dataLength, body |-> AudioContent,
           steps |-> <<>>, replies |-> <<>>, modelCalls |-> 0]]
    /\ UNCHANGED <<messagesDb, promptsDb, configDb, now, appended, defined, last,
                   usersDb>>

\* message_create hands an image message to handleImageMessage
ReceiveImage(h, chatId, from, caption) ==
    /\ handlers[h].pc \in {"idle", "done"}
    /\ handlers' = [handlers EXCEPT ![h] =
          [pc |-> "mediaConfig", kind |-> "image", chatId |-> chatId,
           sender |-> from, dataLength |-> 0, body |-> ImageContent(caption),
           steps |-> <<>>, replies |-> <<>>, modelCalls |-> 0]]
    /\ UNCHANGED <<messagesDb, promptsDb, configDb, now, appended, defined, last,
                   usersDb>>

\* the reply of the catch of handleAudioMessage, of handleImageMessage
MediaApology(kind) ==
    IF kind = "audio"
    THEN <<"Desculpe, ocorreu um erro ao processar o áudio. Por favor, tente novamente.">>
    ELSE <<"Desculpe, ocorreu um erro ao processar a imagem. Por favor, tente novamente.">>

\* const config = await getConfig(chatId); the toggle of the medium, and for an
\* audio the size limit
MediaGetConfig(h) ==
    LET config == GetConfigOf(configDb, promptsDb, handlers[h].chatId)
        on     == IF handlers[h].kind = "audio" THEN AudioEnabled(config)
                  ELSE ImageEnabled(config)
    IN  /\ handlers[h].pc = "mediaConfig"
        /\ IF ~on
           THEN Advance(h, [pc |-> "done"], <<>>)
           ELSE IF handlers[h].kind = "audio" /\ AudioTooLarge(handlers[h].dataLength)
           THEN Advance(h, [pc |-> "done",
                            replies |-> << <<"Desculpe, só posso processar áudios de até 20MB.">> >>],
                        <<>>)
           ELSE Advance(h, [pc |-> "mediaUserConfig"], <<>>)
        /\ UNCHANGED <<messagesDb, promptsDb, configDb, now, appended, defined,
                       last, usersDb>>

\* const userConfig = await getConfig(chatId)
MediaUserConfig(h) ==
    /\ handlers[h].pc = "mediaUserConfig"
    /\ Advance(h, [pc |-> "mediaReadHistory",
                   botName |-> BotNameOf(GetConfigOf(configDb, promptsDb,
                                                     handlers[h].chatId))], <<>>)
    /\ UNCHANGED <<messagesDb, promptsDb, configDb, now, appended, defined, last,
                   usersDb>>

\* const history = await getMessageHistory(chatId)
MediaReadHistory(h) ==
    /\ handlers[h].pc = "mediaReadHistory"
    /\ Advance(h, [pc |-> "mediaGenerate"], <<"readHistory">>)
    /\ UNCHANGED <<messagesDb, promptsDb, configDb, now, appended, defined, last,
                   usersDb>>

\* a handler that treats a failed call as generateResponseWithText does: the
\* apology becomes the response, which is sent and recorded
MediaGenerate_FailureRecorded(h, outcome) ==
    /\ handlers[h].pc = "mediaGenerate"
    /\ Advance(h, [pc |-> "mediaSend",
                   modelCalls |-> handlers[h].modelCalls + 1,
                   failed |-> ~outcome.ok,
                   response |-> IF outcome.ok THEN outcome.text
                                ELSE MediaApology(handlers[h].kind)],
               <<"invokeModel">>)
    /\ UNCHANGED <<messagesDb, promptsDb, configDb, now, appended, defined, last,
                   usersDb>>

\* await modelWithInstructions.generateContent(contentParts); a failure ends in
\* the handler's catch, which replies the apology
MediaGenerate(h, outcome) ==
    /\ handlers[h].pc = "mediaGenerate"
    /\ IF outcome.ok
       THEN Advance(h, [pc |-> "mediaSend",
                        modelCalls |-> handlers[h].modelCalls + 1,
                        failed |-> FALSE, response |-> outcome.text],
                    <<"invokeModel">>)
       ELSE Advance(h, [pc |-> "done",
                        modelCalls |-> handlers[h].modelCalls + 1,
                        failed |-> TRUE,
                        replies |-> << MediaApology(handlers[h].kind) >>],
                    <<"invokeModel", "relay">>)
    /\ UNCHANGED <<messagesDb, promptsDb, configDb, now, appended, defined, last,
                   usersDb>>

\* await sendMessage(msg, response)
MediaSend(h) ==
    /\ handlers[h].pc = "mediaSend"
    /\ Advance(h, [pc |-> "mediaAppendInbound",
                   replies |-> << SendMessageText(handlers[h].response) >>],
               <<"relay">>)
    /\ UNCHANGED <<messagesDb, promptsDb, configDb, now, appended, defined, last,
                   usersDb>>

\* await updateMessageHistory(chatId, msg.author || msg.from, '[Áudio]', false)
MediaAppendInbound(h) ==
    /\ handlers[h].pc = "mediaAppendInbound"
    /\ HandlerAppend(handlers[h].chatId, handlers[h].sender, handlers[h].body, FALSE)
    /\ Advance(h, [pc |-> "mediaAppendOutbound"], <<"appendInbound">>)
    /\ UNCHANGED <<promptsDb, configDb, defined, last, usersDb>>

\* await updateMessageHistory(chatId, userConfig.botName, response, true)
MediaAppendOutbound(h) ==
    /\ handlers[h].pc = "mediaAppendOutbound"
    /\ HandlerAppend(handlers[h].chatId, handlers[h].botName, handlers[h].response, TRUE)
    /\ Advance(h, [pc |-> "done"], <<"appendOutbound">>)
    /\ UNCHANGED <<promptsDb, configDb, defined, last, usersDb>>

-----------------------------------------------------------------------------
(* updateMessageHistory, callback by callback: the insert, the query for the  *)
(* excess rows and the remove are three datastore operations, and those of    *)
(* concurrent calls interleave.  Documents carry their _id here.              *)

\* the _id values told apart; an _id no document or pending remove holds any
\* more stands for a new one
Ids == 1..MaxIds

IdsOf(docs) == {docs[i]._id : i \in 1..Len(docs)}

UsedIds ==
    UNION {IdsOf(messagesDb[c]) : c \in Chats}
       \cup UNION {handlers[h].docsToRemove :
                      h \in {g \in Handlers : handlers[g].pc = "remove"}}

\* a query that leaves one row more than updateMessageHistory does
ExcessOf_SkipOneMore(db, chatId) ==
    LET ps == Skip(SortByTimestampDesc(db[chatId], FindMessages(db, chatId)),
                   MAX_HISTORY * 2 + 1)
    IN  {db[chatId][ps[i]]._id : i \in 1..Len(ps)}

\* docsToRemove.map(doc => doc._id)
ExcessOf(db, chatId) ==
    LET ps == DocsToRemove(db, chatId)
    IN  {db[chatId][ps[i]]._id : i \in 1..Len(ps)}

\* messagesDb.remove({_id: {$in: ids}}, {multi: true})
RemoveIds(db, ids) ==
    [c \in DOMAIN db |-> SelectSeq(db[c], LAMBDA d : d._id \notin ids)]

\* messagesDb.insert({...}) of a call of updateMessageHistory
AppendInsert(h, chatId, sender, message, isBot) ==
    /\ handlers[h].pc = "idle"
    /\ Ids \ UsedIds # {}
    /\ LET id == CHOOSE i \in Ids \ UsedIds : \A j \in Ids \ UsedIds : i <= j
       IN  \E t \in now..MaxClock : \E p \in Landings(messagesDb, chatId, t) :
              /\ now' = t
              /\ messagesDb' = InsertMessage(messagesDb,
                     NewMessage(chatId, sender, message, isBot, t) @@ [_id |-> id], p)
    /\ appended' = AppendedAfter(appended, chatId, sender, message)
    /\ handlers' = [handlers EXCEPT ![h] = [pc |-> "findExcess", chatId |-> chatId]]
    /\ UNCHANGED <<promptsDb, configDb, defined, last, usersDb>>

\* the callback of the insert: find(...).sort({timestamp: -1}).skip(MAX_HISTORY * 2)
AppendFindExcess(h) ==
    /\ handlers[h].pc = "findExcess"
    /\ handlers' = [handlers EXCEPT ![h] =
          [pc |-> "remove", chatId |-> handlers[h].chatId,
           docsToRemove |-> ExcessOf(messagesDb, handlers[h].chatId)]]
    /\ UNCHANGED <<messagesDb, promptsDb, configDb, now, appended, defined, last,
                   usersDb>>

\* the callback of the query: the remove, after which the call resolves
AppendRemove(h) ==
    /\ handlers[h].pc = "remove"
    /\ messagesDb' = RemoveIds(messagesDb, handlers[h].docsToRemove)
    /\ handlers' = [handlers EXCEPT ![h] = [pc |-> "idle"]]
    /\ UNCHANGED <<promptsDb, configDb, now, appended, defined, last, usersDb>>

\* the calls of updateMessageHistory between their insert and their end
InFlight == {h \in Handlers : handlers[h].pc \in {"findExcess", "remove"}}

-----------------------------------------------------------------------------
(* Command dispatch.  A command message is its words: the command, and the    *)
(* arguments its handler reads.                                                *)

\* command.toLowerCase(), on the command words used here
ToLowerCase(word) ==
    CASE word = "RESET"  -> "reset"
      [] word = "Prompt" -> "prompt"
      [] OTHER           -> word

\* the participants of the group a `!users` command is sent in
Participants ==
    { [id |-> <<"5", "5", "1", "@", "c", ".", "u", "s">>, pushname |-> <<"a", "n", "a">>],
      [id |-> <<"5", "5", "2", "@", "c", ".", "u", "s">>, pushname |-> <<>>] }

\* listGroupUsers: the records getOrCreateUser inserts for the participants
\* that have none
ListGroupUsersDb(udb, isGroup) ==
    IF isGroup
    THEN udb (+) SetToBag({ [id |-> p.id, name |-> NewUserName(p.id, p.pushname)] :
                              p \in {q \in Participants : UsersOf(udb, q.id) = {}} })
    ELSE udb

\* listGroupUsers: its reply
ListGroupUsersReplies(udb, isGroup) ==
    IF isGroup
    THEN << <<"Usuários no grupo:\n",
              { <<FindOneUser(ListGroupUsersDb(udb, isGroup), p.id).name, p.id>> :
                   p \in Participants }>> >>
    ELSE << <<"Este comando só funciona em grupos.">> >>

\* handleCommand: the switch on the lower-cased command word. The arguments are
\* cmd.sub, cmd.name, cmd.rest for `prompt`, cmd.sub, cmd.param, cmd.value for
\* `config`; cmd.isGroup tells whether the chat is a group.
HandleCommand(chatId, cmd) ==
    LET call == [op |-> "handleCommand", chatId |-> chatId, command |-> cmd.command]
    IN  CASE ToLowerCase(cmd.command) = "reset" ->
               /\ messagesDb' = RemoveMessages(messagesDb, chatId,
                                               FindMessages(messagesDb, chatId))
               /\ appended' = [appended EXCEPT ![chatId] = <<>>]
               /\ last' = call @@
                     [replies |-> << <<"U+1F916 Histórico resetado para este chat">> >>]
               /\ UNCHANGED <<promptsDb, configDb, now, defined, usersDb, handlers>>
          [] ToLowerCase(cmd.command) = "help" ->
               /\ last' = call @@
                     [replies |-> << <<"Comandos disponíveis:\n [...] !help - Mostra esta mensagem de ajuda">> >>]
               /\ UNCHANGED <<messagesDb, promptsDb, configDb, now, appended,
                              defined, usersDb, handlers>>
          [] ToLowerCase(cmd.command) = "prompt" ->
               HandlePromptCommand(chatId, cmd.sub, cmd.name, cmd.rest)
          [] ToLowerCase(cmd.command) = "config" ->
               HandleConfigCommand(chatId, cmd.sub, cmd.param, cmd.value)
          [] ToLowerCase(cmd.command) = "users" ->
               /\ usersDb' = ListGroupUsersDb(usersDb, cmd.isGroup)
               /\ last' = call @@
                     [replies |-> ListGroupUsersReplies(usersDb, cmd.isGroup)]
               /\ UNCHANGED <<messagesDb, promptsDb, configDb, now, appended,
                              defined, handlers>>
          [] ToLowerCase(cmd.command) = "cego" ->
               HandleCegoCommand(chatId)
          [] OTHER ->
               /\ last' = call @@
                     [replies |-> << <<"Comando desconhecido. Use !help para ver os comandos disponíveis.">> >>]
               /\ UNCHANGED <<messagesDb, promptsDb, configDb, now, appended,
                              defined, usersDb, handlers>>

\* the command messages sent: every command and subcommand, with and without
\* valid arguments
CommandMessages ==
    { [command |-> w] : w \in {"reset", "RESET", "help", "cego", "bogus"} }
       \cup { [command |-> "users", isGroup |-> g] : g \in BOOLEAN }
       \cup { [command |-> "prompt", sub |-> sub, name |-> n, rest |-> r] :
                 sub \in PromptSubcommands,
                 n \in {NameBob, <<>>}, r \in { <<>>, << <<"h", "i">> >> } }
       \cup { [command |-> "Prompt", sub |-> "list", name |-> <<>>, rest |-> <<>>] }
       \cup { [command |-> "config", sub |-> "set", param |-> p, value |-> v] :
                 p \in {"temperature", "activePrompt", ""},
                 v \in { <<>>, <<"0", ".", "5">>, <<"x">> } }
       \cup { [command |-> "config", sub |-> sub, param |-> p, value |-> <<>>] :
                 sub \in {"get", "bogus"}, p \in {"activePrompt", ""} }

-----------------------------------------------------------------------------
(* Reply sanitizer (services/geminiService.js) *)

\* "[Importância: "
ImportanceOpen ==
    <<"[", "I", "m", "p", "o", "r", "t", "â", "n", "c", "i", "a", ":", " ">>

\* "[User"
UserOpen == <<"[", "U", "s", "e", "r">>

\* response.replace(/^\[Importância: \d+\.\d+\]\s*/, '')
StripImportance(s) ==
    IF ~StartsWith(s, ImportanceOpen) THEN s
    ELSE LET a  == DropFirst(s, Len(ImportanceOpen))
             d1 == RunLength(a, DigitChars)
             b  == DropFirst(a, d1)
             d2 == RunLength(DropFirst(b, 1), DigitChars)
             c  == DropFirst(b, 1 + d2)
         IN  IF /\ d1 >= 1 /\ StartsWith(b, <<".">>)
                /\ d2 >= 1 /\ StartsWith(c, <<"]">>)
             THEN StripLeft(DropFirst(c, 1))
             ELSE s

\* sanitized.replace(/^\[User\d+\]:\s*/, '')
StripUserEcho(s) ==
    IF ~StartsWith(s, UserOpen) THEN s
    ELSE LET a == DropFirst(s, Len(UserOpen))
             d == RunLength(a, DigitChars)
             b == DropFirst(a, d)
         IN  IF d >= 1 /\ StartsWith(b, <<"]", ":">>)
             THEN StripLeft(DropFirst(b, 2))
             ELSE s

\* whether /Usuário:|Human:|[A-Z]+:/ matches at the start of s
SpeakerLabelAt(s) ==
    \/ StartsWith(s, <<"U", "s", "u", "á", "r", "i", "o", ":">>)
    \/ StartsWith(s, <<"H", "u", "m", "a", "n", ":">>)
    \/ /\ RunLength(s, UpperChars) >= 1
       /\ StartsWith(DropFirst(s, RunLength(s, UpperChars)), <<":">>)

\* sanitized.split(/Usuário:|Human:|[A-Z]+:/)[0]: the text before the first label
RECURSIVE BeforeSpeakerLabel(_)
BeforeSpeakerLabel(s) ==
    IF s = <<>> \/ SpeakerLabelAt(s) THEN <<>>
    ELSE <<Head(s)>> \o BeforeSpeakerLabel(Tail(s))

\* "Desculpe, não consegui gerar uma resposta adequada. Pode reformular sua pergunta?"
SanitizeApology ==
    <<"D", "e", "s", "c", "u", "l", "p", "e", ",", " ", "n", "ã", "o", " ", "c", "o",
      "n", "s", "e", "g", "u", "i", " ", "g", "e", "r", "a", "r", " ", "u", "m", "a",
      " ", "r", "e", "s", "p", "o", "s", "t", "a", " ", "a", "d", "e", "q", "u", "a",
      "d", "a", ".", " ", "P", "o", "d", "e", " ", "r", "e", "f", "o", "r", "m", "u",
      "l", "a", "r", " ", "s", "u", "a", " ", "p", "e", "r", "g", "u", "n", "t", "a",
      "?">>

SanitizeResponse(response) ==
    LET sanitized == Trim(BeforeSpeakerLabel(StripUserEcho(StripImportance(response))))
    IN  IF sanitized # <<>> THEN sanitized ELSE SanitizeApology

\* the pieces model replies are built from
ReplyPieces ==
    { ImportanceOpen \o <<"0", ".", "5", "]", " ">>,
      UserOpen \o <<"1", "]", ":", " ">>,
      <<"o", "i">>,
      <<" ">>,
      <<"A", "I", ":">>,
      <<"H", "u", "m", "a", "n", ":">> }

\* the number of pieces in a reply
MaxPieces == 3

RECURSIVE RepliesOf(_)
RepliesOf(n) ==
    IF n = 0 THEN { <<>> }
    ELSE RepliesOf(n - 1) \cup {r \o p : r \in RepliesOf(n - 1), p \in ReplyPieces}

\* a raw reply arrives from the model
ReceiveReply(text) ==
    /\ last.op = "none"
    /\ last' = [op |-> "reply", text |-> text]
    /\ UNCHANGED <<messagesDb, promptsDb, configDb, now, appended, defined, usersDb, handlers>>

\* sanitizeResponse is applied to the text at hand
Sanitize ==
    /\ last.op \in {"reply", "sanitizeResponse"}
    /\ last' = [op |-> "sanitizeResponse", arg |-> last.text,
                text |-> SanitizeResponse(last.text)]
    /\ UNCHANGED <<messagesDb, promptsDb, configDb, now, appended, defined, usersDb, handlers>>

-----------------------------------------------------------------------------
(* Specifications *)

Init ==
    /\ messagesDb = [c \in Chats |-> <<>>]
    /\ promptsDb = EmptyBag
    /\ configDb = EmptyBag
    /\ now = 0
    /\ appended = [c \in Chats |-> <<>>]
    /\ defined = [c \in Chats |-> [n \in AllNames |-> Null]]
    /\ last = [op |-> "none"]
    /\ usersDb = EmptyBag
    /\ handlers = [h \in Handlers |-> [pc |-> "idle"]]

NextHistory ==
    \/ \E c \in Chats, a \in Appends : UpdateMessageHistory(c, a[1], a[2], a[3])
    \/ \E c \in Chats : GetMessageHistory(c)
    \/ \E c \in Chats : ResetHistory(c)

SpecHistory == Init /\ [][NextHistory]_vars

NextPrompts ==
    \/ \E c \in Chats, n \in Names, b \in Bodies : SetSystemPrompt(c, n, b)
    \/ \E c \in Chats, n \in Names : GetSystemPrompt(c, n)
    \/ \E c \in Chats : ListSystemPrompts(c)
    \/ \E c \in Chats, n \in Names : SetActiveSystemPrompt(c, n)
    \/ \E c \in Chats : ClearActiveSystemPrompt(c)
    \/ \E c \in Chats : GetConfig(c)
    \/ \E c \in Chats, sub \in PromptSubcommands, n \in PromptNames, r \in PromptRests :
          HandlePromptCommand(c, sub, n, r)

SpecPrompts == Init /\ [][NextPrompts]_vars

NextConfig ==
    \/ \E c \in Chats, p \in ConfigParams, v \in ConfigValues :
          HandleConfigCommand(c, "set", p, v)
    \/ \E c \in Chats, sub \in ConfigSubcommands \ {"set"}, p \in ConfigParams :
          HandleConfigCommand(c, sub, p, <<>>)
    \/ \E c \in Chats : GetConfig(c)
    \/ \E c \in Chats : ClearActiveSystemPrompt(c)

SpecConfig == Init /\ [][NextConfig]_vars

NextMedia ==
    \/ \E c \in Chats, f \in MediaSenders, n \in AudioSizes, e \in MediaEncodings,
          o \in ModelOutcomes : HandleAudioMessage(c, f, n, e, o)
    \/ \E c \in Chats, f \in MediaSenders, b \in ImageCaptions, o \in ModelOutcomes :
          HandleImageMessage(c, f, b, o)
    \/ \E c \in Chats, p \in {"mediaImage", "mediaAudio"} : SetConfig(c, p, FALSE)
    \/ \E c \in Chats : HandleCegoCommand(c)

SpecMedia == Init /\ [][NextMedia]_vars

NextReset ==
    \/ \E c \in Chats, a \in Appends : UpdateMessageHistory(c, a[1], a[2], a[3])
    \/ \E c \in Chats : GetMessageHistory(c)
    \/ \E c \in Chats : ResetHistory(c)
    \/ \E c \in Chats : HandleCegoCommand(c)

SpecReset == Init /\ [][NextReset]_vars

NextPromptFrame ==
    \/ \E c \in Chats, a \in Appends :
          /\ TotalRows(messagesDb) < MaxMediaRows
          /\ UpdateMessageHistory(c, a[1], a[2], a[3])
    \/ \E sub \in {"set", "use", "clear"}, n \in {NameBob, <<>>},
          r \in { <<>>, << <<"h", "i">> >> } : HandlePromptCommand("c1", sub, n, r)
    \/ HandleCegoCommand("c1")

SpecPromptFrame == Init /\ [][NextPromptFrame]_vars

NextText ==
    \/ \E f \in MediaSenders :
          ReceiveText("h1", "c1", f, <<"a", "n", "a">>, <<"o", "l", "á">>)
    \/ FindUser("h1")
    \/ InsertUser("h1")
    \/ TextGetConfig("h1")
    \/ TextAppendInbound("h1")
    \/ TextReadHistory("h1")
    \/ \E o \in TextOutcomes : TextGenerate("h1", o)
    \/ TextAppendOutbound("h1")
    \/ TextSend("h1")

\* one text message at a time, every store, model and transport call completing:
\* the invocation's steps are weakly fair. This is WF_vars(TextStep("h1")) with
\* ENABLED <<TextStep("h1")>>_vars written as what it amounts to, the invocation
\* being between its first await and its end.
SpecText ==
    /\ Init
    /\ [][NextText]_vars
    /\ \/ []<>(handlers["h1"].pc \in {"idle", "done"})
       \/ []<><<TextStep("h1")>>_vars

\* the display names the transport reports for a contact; none for some
UserPushnames == { <<"a", "n", "a">>, <<>> }

\* the first text messages of a chat, two invocations of handleTextMessage at a
\* time, their awaits interleaving
NextUsers ==
    \/ \E h \in Handlers, f \in MediaSenders, n \in UserPushnames :
          /\ messagesDb["c1"] = <<>>
          /\ ReceiveText(h, "c1", f, n, <<"o", "l", "á">>)
    \/ \E h \in Handlers : FindUser(h)
    \/ \E h \in Handlers : InsertUser(h)
    \/ \E h \in Handlers : TextGetConfig(h)
    \/ \E h \in Handlers : TextAppendInbound(h)
    \/ \E h \in Handlers : TextReadHistory(h)
    \/ \E h \in Handlers, o \in TextOutcomes : TextGenerate(h, o)
    \/ \E h \in Handlers : TextAppendOutbound(h)
    \/ \E h \in Handlers : TextSend(h)

SpecUsers == Init /\ [][NextUsers]_vars

\* one message at a time, of any kind
NextSteps ==
    \/ \E f \in MediaSenders :
          ReceiveText("h1", "c1", f, <<"a", "n", "a">>, <<"o", "l", "á">>)
    \/ \E f \in MediaSenders, n \in AudioSizes : ReceiveAudio("h1", "c1", f, n)
    \/ \E f \in MediaSenders, b \in ImageCaptions : ReceiveImage("h1", "c1", f, b)
    \/ FindUser("h1")
    \/ InsertUser("h1")
    \/ TextGetConfig("h1")
    \/ TextAppendInbound("h1")
    \/ TextReadHistory("h1")
    \/ \E o \in TextOutcomes : TextGenerate("h1", o)
    \/ TextAppendOutbound("h1")
    \/ TextSend("h1")
    \/ MediaGetConfig("h1")
    \/ MediaUserConfig("h1")
    \/ MediaReadHistory("h1")
    \/ \E o \in ModelOutcomes : MediaGenerate("h1", o)
    \/ MediaSend("h1")
    \/ MediaAppendInbound("h1")
    \/ MediaAppendOutbound("h1")

SpecSteps == Init /\ [][NextSteps]_vars

\* appends to one chat by invocations running side by side
NextAppends ==
    \/ \E h \in Handlers, f \in MediaSenders :
          AppendInsert(h, "c1", f, <<"o", "l", "á">>, FALSE)
    \/ \E h \in Handlers : AppendFindExcess(h)
    \/ \E h \in Handlers : AppendRemove(h)

SpecAppends == Init /\ [][NextAppends]_vars

\* the command surface: command messages, one after the other
NextCommands ==
    \/ \E cmd \in CommandMessages : HandleCommand("c1", cmd)
    \/ \E cmd \in {m \in CommandMessages : m.command \in {"prompt", "cego"}} :
          HandleCommand("c2", cmd)

SpecCommands == Init /\ [][NextCommands]_vars

\* one media message at a time, the media toggles switched in between
NextMediaSteps ==
    \/ \E f \in MediaSenders, n \in {16 * MB, 20 * MB + 1} :
          ReceiveAudio("h1", "c1", f, n)
    \/ \E f \in MediaSenders : ReceiveImage("h1", "c1", f, <<>>)
    \/ MediaGetConfig("h1")
    \/ MediaUserConfig("h1")
    \/ MediaReadHistory("h1")
    \/ \E o \in ModelOutcomes : MediaGenerate("h1", o)
    \/ MediaSend("h1")
    \/ MediaAppendInbound("h1")
    \/ MediaAppendOutbound("h1")
    \/ \E p \in {"mediaImage", "mediaAudio"} : SetConfig("c1", p, FALSE)

SpecMediaSteps == Init /\ [][NextMediaSteps]_vars

NextSanitize ==
    \/ \E text \in RepliesOf(MaxPieces) : ReceiveReply(text)
    \/ Sanitize

SpecSanitize == Init /\ [][NextSanitize]_vars

-----------------------------------------------------------------------------
(* History manager: properties *)

\* C1: a read with the default limit returns at most 2 * MAX_HISTORY lines, and
\* they are the most recently appended messages of the chat, oldest first, each
\* rendered "<sender>: <content>".
C1_ReadReturnsLatestAppends ==
    last.op = "getMessageHistory" =>
        /\ Len(last.ret) <= 2 * MAX_HISTORY
        /\ last.ret = appended[last.chatId]

\* C2: with appends run one at a time, every chat holds at most 2 * MAX_HISTORY
\* rows after an append, the trim removes rows only when the chat is over that
\* size and leaves it exactly full, and every removed row is at most as new (by
\* timestamp) as every row kept.
C2_TrimKeepsNewest ==
    /\ \A c \in Chats : Len(messagesDb[c]) <= 2 * MAX_HISTORY
    /\ last.op = "updateMessageHistory" =>
         LET docs == messagesDb[last.chatId]
         IN  /\ last.removed # <<>> => Len(docs) = 2 * MAX_HISTORY
             /\ \A i \in 1..Len(last.removed), j \in 1..Len(docs) :
                    last.removed[i].timestamp <= docs[j].timestamp

\* an append has just trimmed a full chat
C2_Witness ==
    /\ last.op = "updateMessageHistory"
    /\ last.removed # <<>>
    /\ Len(messagesDb[last.chatId]) = 2 * MAX_HISTORY

-----------------------------------------------------------------------------
(* Prompt registry and config resolver: properties *)

\* the number of promptsDb records of (chatId, name)
PromptCount(chatId, name) ==
    BagCardinality([d \in PromptsOf(promptsDb, chatId, name) |-> promptsDb[d]])

\* C3, as stated: a fetch after a define returns text that is
\* "Your name is <name>. " followed by the body, and (chatId, name) has exactly
\* one record.
C3_FetchReturnsYourNameIs ==
    /\ \A c \in Chats, n \in Names :
          PromptCount(c, n) = IF defined[c][n] # Null THEN 1 ELSE 0
    /\ (last.op = "getSystemPrompt" /\ defined[last.chatId][last.name] # Null) =>
          /\ last.ret # NoDoc
          /\ last.ret.text =
                <<"Y", "o", "u", "r", " ", "n", "a", "m", "e", " ", "i", "s", " ">>
                \o last.name \o <<".", " ">> \o defined[last.chatId][last.name]

\* C3, amended: the text is "Seu nome é <name>. " followed by the body of the
\* last define, unmodified; a name never defined has no record and a defined
\* one exactly one.
C3_FetchReturnsSeuNomeE ==
    /\ \A c \in Chats, n \in Names :
          PromptCount(c, n) = IF defined[c][n] # Null THEN 1 ELSE 0
    /\ (last.op = "getSystemPrompt" /\ defined[last.chatId][last.name] # Null) =>
          /\ last.ret # NoDoc
          /\ last.ret.chatId = last.chatId /\ last.ret.name = last.name
          /\ last.ret.text =
                <<"S", "e", "u", " ", "n", "o", "m", "e", " ", "é", " ">>
                \o last.name \o <<".", " ">> \o defined[last.chatId][last.name]

\* a fetch of a prompt that was defined with the longer body
C3_Witness ==
    /\ last.op = "getSystemPrompt"
    /\ defined[last.chatId][last.name] = <<"O", "K", ".", " ", "h", "i">>
    /\ last.ret # NoDoc

\* C4: setActiveSystemPrompt with a name that has no record in the chat returns
\* false and leaves configDb as it was; with an existing name it returns true and
\* the chat's config record holds activePrompt = that name.
C4_ActivateChecksExistence ==
    [][last'.op = "setActiveSystemPrompt" =>
         IF PromptsOf(promptsDb, last'.chatId, last'.name) = {}
         THEN last'.ret = FALSE /\ configDb' = configDb
         ELSE /\ last'.ret = TRUE
              /\ ConfigsOf(configDb', last'.chatId) # {}
              /\ \A d \in ConfigsOf(configDb', last'.chatId) :
                    d.activePrompt = last'.name]_vars

\* an activation was refused while another prompt is active in the chat
C4_Witness ==
    /\ last.op = "setActiveSystemPrompt"
    /\ last.ret = FALSE
    /\ \E d \in ConfigsOf(configDb, last.chatId) :
          "activePrompt" \in DOMAIN d /\ Truthy(d.activePrompt)

\* C5: getConfig on a chat with no config record returns exactly the static
\* defaults (0.9, 93, 0.95, 1024, true, true) with botName the default name and
\* no systemInstructions, and creates no record.
C5_DefaultsWithoutRecord ==
    [][(last'.op = "getConfig" /\ ConfigsOf(configDb, last'.chatId) = {}) =>
         /\ configDb' = configDb
         /\ last'.ret = [temperature |-> 90, topK |-> 9300, topP |-> 95,
                         maxOutputTokens |-> 102400, mediaImage |-> TRUE,
                         mediaAudio |-> TRUE,
                         botName |-> <<"A", "m", "e", "l", "i", "e">>]]_vars

\* getConfig on a chat without a record, while the chat has prompts and another
\* chat has a record
C5_Witness ==
    /\ last.op = "getConfig"
    /\ ConfigsOf(configDb, last.chatId) = {}
    /\ configDb # EmptyBag
    /\ \E n \in Names : PromptsOf(promptsDb, last.chatId, n) # {}

\* C9: with a prompt defined and then activated, getConfig returns its stored
\* text as systemInstructions and its name as botName.
C9_BotNameIsActivePromptName ==
    (/\ last.op = "getConfig"
     /\ \E d \in ConfigsOf(configDb, last.chatId) :
           /\ "activePrompt" \in DOMAIN d
           /\ d.activePrompt \in Names
           /\ defined[last.chatId][d.activePrompt] # Null) =>
        LET name == FindOneConfig(configDb, last.chatId).activePrompt
        IN  /\ "systemInstructions" \in DOMAIN last.ret
            /\ last.ret.systemInstructions =
                  FindOnePrompt(promptsDb, last.chatId, name).text
            /\ "botName" \in DOMAIN last.ret
            /\ last.ret.botName = name

-----------------------------------------------------------------------------
(* Reply sanitizer: properties *)

\* C6: sanitizeResponse is idempotent: sanitizing a sanitized text returns it
\* unchanged.
C6_SanitizeIdempotent ==
    last.op = "sanitizeResponse" => SanitizeResponse(last.text) = last.text

-----------------------------------------------------------------------------
(* Config command: properties *)

\* the one record configDb holds for a chat, when it holds exactly one
ConfigCount(db, chatId) ==
    BagCardinality([d \in ConfigsOf(db, chatId) |-> db[d]])

\* C10: a `config set` that is rejected (an argument missing, a parameter other
\* than temperature/topK/topP/maxOutputTokens, or a value that does not start
\* with a number) sends one corrective message and leaves configDb as it was; an
\* accepted one confirms, leaves every other chat's records alone, and in the
\* chat's single record changes the named field only.
C10_ConfigSetRejectedOrOneField ==
    [][(last'.op = "handleConfigCommand" /\ last'.sub = "set") =>
         LET c == last'.chatId
             p == last'.param
             v == last'.value
         IN  IF \/ p = "" \/ v = <<>>
                \/ p \notin {"temperature", "topK", "topP", "maxOutputTokens"}
                \/ Head(v) \notin {"0", "1", "2", "3", "4", "5", "6", "7", "8", "9"}
             THEN /\ configDb' = configDb
                  /\ last'.replies \in
                        { << <<"Uso correto: !config set <param> <valor>">> >>,
                          << <<"Parâmetro desconhecido: ", p>> >>,
                          << <<"Valor inválido para ", p, ". Use um número.">> >> }
             ELSE /\ Len(last'.replies) = 1
                  /\ last'.replies[1][1] = "Parâmetro "
                  /\ \A d \in BagToSet(configDb) \cup BagToSet(configDb') :
                        d.chatId # c =>
                           CopiesIn(d, configDb') = CopiesIn(d, configDb)
                  /\ ConfigCount(configDb', c) = 1
                  /\ \A new \in ConfigsOf(configDb', c) :
                        /\ new[p] = last'.replies[1][4]
                        /\ \A old \in ConfigsOf(configDb, c) :
                              /\ DOMAIN new = DOMAIN old \cup {p}
                              /\ \A f \in DOMAIN old \ {p} : new[f] = old[f]
                        /\ ConfigsOf(configDb, c) = {} =>
                              DOMAIN new = {"chatId", p}]_vars

\* a `config set temperature x` was refused in a chat whose record holds a
\* temperature and another field
C10_Witness ==
    /\ last.op = "handleConfigCommand" /\ last.sub = "set"
    /\ last.param = "temperature" /\ last.value = <<"x">>
    /\ \E d \in ConfigsOf(configDb, last.chatId) :
          {"temperature", "maxOutputTokens"} \subseteq DOMAIN d

-----------------------------------------------------------------------------
(* Media handlers: properties *)

\* C7: an audio message whose payload is over 20 MB, in a chat whose mediaAudio
\* is enabled (not stored, or stored true), gets the size-limit reply, no model
\* call, and no history row.
C7_OversizeAudioRejected ==
    [][(/\ last'.op = "handleAudioMessage"
        /\ last'.payloadBytes > 20 * 1024 * 1024
        /\ \A d \in ConfigsOf(configDb, last'.chatId) :
              "mediaAudio" \in DOMAIN d => d.mediaAudio = TRUE) =>
         /\ last'.replies =
               << <<"Desculpe, só posso processar áudios de até 20MB.">> >>
         /\ last'.modelCalls = 0
         /\ messagesDb' = messagesDb]_vars

\* an oversize audio message was refused in a chat that already has history
C7_Witness ==
    /\ last.op = "handleAudioMessage"
    /\ last.payloadBytes > 20 * 1024 * 1024
    /\ last.replies = << <<"Desculpe, só posso processar áudios de até 20MB.">> >>
    /\ messagesDb[last.chatId] # <<>>

\* C8: with the chat's mediaAudio (mediaImage) stored false, an audio (image)
\* message is dropped: no reply, no model call, and messagesDb, promptsDb and
\* configDb stay as they were.
C8_DisabledMediaDropped ==
    [][(\/ /\ last'.op = "handleAudioMessage"
           /\ \E d \in ConfigsOf(configDb, last'.chatId) :
                 "mediaAudio" \in DOMAIN d /\ d.mediaAudio = FALSE
        \/ /\ last'.op = "handleImageMessage"
           /\ \E d \in ConfigsOf(configDb, last'.chatId) :
                 "mediaImage" \in DOMAIN d /\ d.mediaImage = FALSE) =>
         /\ last'.replies = <<>>
         /\ last'.modelCalls = 0
         /\ messagesDb' = messagesDb
         /\ promptsDb' = promptsDb
         /\ configDb' = configDb]_vars

\* an audio message was dropped in a chat that has history, a prompt, and
\* images still enabled
C8_Witness ==
    /\ last.op = "handleAudioMessage"
    /\ last.replies = <<>>
    /\ messagesDb[last.chatId] # <<>>
    /\ PromptsOf(promptsDb, last.chatId, NameAudiomar) # {}
    /\ \E d \in ConfigsOf(configDb, last.chatId) :
          d.mediaAudio = FALSE /\ d.mediaImage = TRUE

-----------------------------------------------------------------------------
(* Reset: properties *)

\* C11: resetHistory leaves the chat without a message row, so that a read right
\* after it returns the empty list, and leaves configDb, promptsDb and the rows
\* of every other chat as they were.
C11_ResetClearsOnlyChatRows ==
    [][/\ last'.op = "resetHistory" =>
             /\ messagesDb'[last'.chatId] = <<>>
             /\ \A c \in Chats \ {last'.chatId} : messagesDb'[c] = messagesDb[c]
             /\ configDb' = configDb
             /\ promptsDb' = promptsDb
       /\ (/\ last.op = "resetHistory"
           /\ last'.op = "getMessageHistory"
           /\ last'.chatId = last.chatId) => last'.ret = <<>>]_vars

\* a reset removed user and bot rows of a chat that has a config record and a
\* prompt, while the other chat has rows
C11_Witness ==
    /\ last.op = "resetHistory"
    /\ last.removed = 2 * MAX_HISTORY
    /\ ConfigsOf(configDb, last.chatId) # {}
    /\ PromptsOf(promptsDb, last.chatId, NameAudiomar) # {}
    /\ \E c \in Chats \ {last.chatId} : messagesDb[c] # <<>>

-----------------------------------------------------------------------------
(* Deactivation: properties *)

\* C12: clearActiveSystemPrompt leaves promptsDb as it was and the chat with one
\* config record whose activePrompt is null and whose other fields are as
\* before; while activePrompt is null, getConfig returns the default botName and
\* no systemInstructions, and activating a prompt defined earlier succeeds.
C12_DeactivateKeepsPrompts ==
    [][/\ last'.op = "clearActiveSystemPrompt" =>
             /\ promptsDb' = promptsDb
             /\ ConfigCount(configDb', last'.chatId) = 1
             /\ \A new \in ConfigsOf(configDb', last'.chatId) :
                   /\ "activePrompt" \in DOMAIN new
                   /\ new.activePrompt = <<"null">>
                   /\ \A old \in ConfigsOf(configDb, last'.chatId) :
                         \A f \in DOMAIN old \ {"activePrompt"} :
                            f \in DOMAIN new /\ new[f] = old[f]
       /\ \A d \in ConfigsOf(configDb, last'.chatId) :
             ("activePrompt" \in DOMAIN d /\ d.activePrompt = <<"null">>) =>
                /\ last'.op = "getConfig" =>
                      /\ "botName" \in DOMAIN last'.ret
                      /\ last'.ret.botName = <<"A", "m", "e", "l", "i", "e">>
                      /\ "systemInstructions" \notin DOMAIN last'.ret
                /\ (/\ last'.op = "setActiveSystemPrompt"
                    /\ defined[last'.chatId][last'.name] # <<"null">>) =>
                      /\ last'.ret = TRUE
                      /\ \A new \in ConfigsOf(configDb', last'.chatId) :
                            new.activePrompt = last'.name]_vars

\* a chat that holds both prompts has just been deactivated
C12_Witness ==
    /\ last.op = "clearActiveSystemPrompt"
    /\ \A n \in Names : PromptsOf(promptsDb, last.chatId, n) # {}
    /\ \E d \in ConfigsOf(configDb, last.chatId) : d.activePrompt = <<"null">>

-----------------------------------------------------------------------------
(* Prompt commands and the message history: properties *)

\* C13: a prompt command (set, use, clear, with or without valid arguments) and
\* the `!cego` shortcut leave every message row of every chat as it was.
C13_PromptCommandsKeepHistory ==
    [][last'.op \in {"handlePromptCommand", "handleCegoCommand"} =>
          messagesDb' = messagesDb]_vars

\* a `prompt set` was accepted in a chat that has message rows
C13_Witness ==
    /\ last.op = "handlePromptCommand"
    /\ last.sub = "set"
    /\ PromptsOf(promptsDb, last.chatId, last.name) # {}
    /\ Len(messagesDb[last.chatId]) = 2 * MAX_HISTORY

-----------------------------------------------------------------------------
(* Text messages: properties *)

\* C14: a text message handed to handleTextMessage is eventually answered with
\* one reply; the model is called once per message; and when the call throws
\* or returns an empty text, the reply is the fallback string of
\* generateResponseWithText.
C14_TextMessageAnswered ==
    /\ (handlers["h1"].pc = "findUser") ~>
          (handlers["h1"].pc = "done" /\ Len(handlers["h1"].replies) = 1)
    /\ [](\A h \in Handlers :
            handlers[h].pc = "done" =>
               /\ handlers[h].modelCalls = 1
               /\ handlers[h].failed =>
                     handlers[h].replies =
                        << <<"Desculpe, ocorreu um erro ao gerar a resposta. Por favor, tente novamente ou reformule sua pergunta.">> >>)

\* a text message whose model call failed has been answered, in a chat that
\* already held a full history
C14_Witness ==
    /\ handlers["h1"].pc = "done"
    /\ handlers["h1"].failed
    /\ Len(handlers["h1"].replies) = 1
    /\ Len(appended["c1"]) = 2 * MAX_HISTORY

-----------------------------------------------------------------------------
(* User records: properties *)

\* C15: the user collection holds at most one record per participant id, also
\* when two invocations for the same unseen sender interleave.
C15_OneRecordPerId ==
    \A d \in BagToSet(usersDb) :
       /\ usersDb[d] = 1
       /\ \A e \in BagToSet(usersDb) : e.id = d.id => e = d

-----------------------------------------------------------------------------
(* The order of a handler's steps: properties *)

\* the place of a step in the order append inbound, read history, invoke
\* model, sanitize, append outbound, relay
StepRank(step) ==
    CASE step = "appendInbound"  -> 1
      [] step = "readHistory"    -> 2
      [] step = "invokeModel"    -> 3
      [] step = "sanitize"       -> 4
      [] step = "appendOutbound" -> 5
      [] step = "relay"          -> 6

\* C16: the steps taken for a text, image or audio message come in the order
\* append inbound, read history, invoke model, sanitize, append outbound,
\* relay; a reply that was relayed was persisted before.
C16_StepsInOrder ==
    \A h \in Handlers :
       "steps" \in DOMAIN handlers[h] =>
          LET steps == handlers[h].steps
          IN  /\ \A i, j \in 1..Len(steps) :
                    i < j => StepRank(steps[i]) < StepRank(steps[j])
              /\ (handlers[h].pc = "done" /\ "response" \in DOMAIN handlers[h]) =>
                    \E i, j \in 1..Len(steps) :
                       i < j /\ steps[i] = "appendOutbound" /\ steps[j] = "relay"

-----------------------------------------------------------------------------
(* Concurrent appends: properties *)

\* C17: however the inserts, excess queries and removes of concurrent appends
\* interleave, a chat holds at most 2 * MAX_HISTORY rows plus one per append in
\* flight; so at most 2 * MAX_HISTORY when none is.
C17_RowsBoundedByInFlight ==
    \A c \in Chats :
       Len(messagesDb[c]) <= 2 * MAX_HISTORY + Cardinality(InFlight)

\* every invocation has an append in flight and the chat is at the bound
C17_Witness ==
    /\ InFlight = Handlers
    /\ Len(messagesDb["c1"]) = 2 * MAX_HISTORY + Cardinality(Handlers)
    /\ \E h \in Handlers : handlers[h].pc = "remove" /\ handlers[h].docsToRemove # {}

-----------------------------------------------------------------------------
(* The command surface: properties *)

\* C18: whatever commands were sent, a chat's activePrompt, when not null,
\* names a prompt record of the same chat, and getConfig returns a botName:
\* the name extracted from the prompt text or the default.
C18_ActivePromptExists ==
    \A c \in Chats :
       LET doc    == FindOneConfig(configDb, c)
           config == GetConfigOf(configDb, promptsDb, c)
       IN  /\ ("activePrompt" \in DOMAIN doc /\ Truthy(doc.activePrompt)) =>
                 FindOnePrompt(promptsDb, c, doc.activePrompt) # NoDoc
           /\ "botName" \in DOMAIN config
           /\ config.botName \in {BOT_NAME} \cup AllNames

\* a prompt is active in one chat after a `use`, while the other chat, where a
\* prompt of that name was never defined, has none
C18_Witness ==
    /\ last.op = "handlePromptCommand"
    /\ last.sub = "use"
    /\ "activePrompt" \in DOMAIN FindOneConfig(configDb, "c1")
    /\ FindOneConfig(configDb, "c1").activePrompt = NameBob
    /\ GetConfigOf(configDb, promptsDb, "c1").botName = NameBob
    /\ FindOnePrompt(promptsDb, "c2", NameBob) = NoDoc
    /\ "activePrompt" \notin DOMAIN FindOneConfig(configDb, "c2")

\* C19: every command message is answered with exactly one reply.
C19_OneReplyPerCommand ==
    "replies" \in DOMAIN last => Len(last.replies) = 1

-----------------------------------------------------------------------------
(* Media messages and the history: properties *)

\* C20: an image or audio message whose model call failed is answered with the
\* one apology of its handler and leaves no history row; a media handler
\* writes history rows only once the model's reply has been obtained and
\* sent, and then the user's row followed by the bot's.
C20_MediaRowsOnlyAfterReply ==
    /\ [](handlers["h1"].pc = "done" /\ handlers["h1"].modelCalls = 1 =>
            IF handlers["h1"].failed
            THEN /\ handlers["h1"].replies = << MediaApology(handlers["h1"].kind) >>
                 /\ handlers["h1"].steps = <<"readHistory", "invokeModel", "relay">>
            ELSE /\ handlers["h1"].replies =
                       << SendMessageText(handlers["h1"].response) >>
                 /\ handlers["h1"].steps =
                       <<"readHistory", "invokeModel", "relay",
                         "appendInbound", "appendOutbound">>)
    /\ [][messagesDb' # messagesDb =>
            /\ handlers["h1"].pc \in {"mediaAppendInbound", "mediaAppendOutbound"}
            /\ ~handlers["h1"].failed
            /\ handlers["h1"].replies = << SendMessageText(handlers["h1"].response) >>]_vars

\* an audio message's model call failed in a chat that holds the two rows of
\* an earlier media message
C20_Witness ==
    /\ handlers["h1"].pc = "done"
    /\ handlers["h1"].kind = "audio"
    /\ handlers["h1"].modelCalls = 1
    /\ handlers["h1"].failed
    /\ Len(handlers["h1"].replies) = 1
    /\ Len(messagesDb["c1"]) = 2 * MAX_HISTORY

====
